---- MODULE Spec2Model ----
(***************************************************************************)
(* Weighted order-k Markov name model of src/name_generator.py:            *)
(* MarkovNameGenerator.__init__, train and generate.                       *)
(*                                                                         *)
(* A Python string is a sequence of one-character strings.  The transition *)
(* table self.chains (a defaultdict of Counters) is a function whose       *)
(* DOMAIN is the set of keys present; each value is a function from the    *)
(* characters present in that Counter to their integer weight.             *)
(***************************************************************************)
EXTENDS Integers, Sequences, FiniteSets, TLC

\* ------------------------------------------------------------ bounds
MaxCorpus == 2        \* longest names/weights list handed to train
MaxTrains == 2        \* train calls made on one model
MaxLen == 3           \* largest max_length / min_length argument
RecursionLimit == 3   \* nested generate frames the interpreter allows
MaxCount == 2         \* largest --count given to main
AttemptFactor == 10   \* max_attempts = args.count * 10

\* ------------------------------------------------------------ characters
START == "^"
END == "$"
LowerLetters == {"a", "b", "h", "i", "j", "o", "s", "u"}
UpperLetters == {"A", "B", "H", "I", "J", "O", "S", "U"}
Letters == LowerLetters \cup UpperLetters
Whitespace == {" "}
\* the character class of _is_valid_name: letters, \s, '-' and "'"
NameChars == Letters \cup Whitespace \cup {"-", "'"}
AllChars == NameChars \cup {"1", START, END}

\* str.lower() / str.upper() on one character
LowerChar(c) ==
  CASE c = "A" -> "a" [] c = "B" -> "b" [] c = "H" -> "h" [] c = "I" -> "i"
    [] c = "J" -> "j" [] c = "O" -> "o" [] c = "S" -> "s" [] c = "U" -> "u"
    [] OTHER -> c
UpperChar(c) ==
  CASE c = "a" -> "A" [] c = "b" -> "B" [] c = "h" -> "H" [] c = "i" -> "I"
    [] c = "j" -> "J" [] c = "o" -> "O" [] c = "s" -> "S" [] c = "u" -> "U"
    [] OTHER -> c

\* str.lower()
lower(s) == [i \in 1..Len(s) |-> LowerChar(s[i])]

\* str.title(): a cased character is upper-cased when it follows an uncased
\* character (or starts the string) and lower-cased otherwise
title(s) ==
  [i \in 1..Len(s) |->
     IF i > 1 /\ s[i-1] \in Letters THEN LowerChar(s[i]) ELSE UpperChar(s[i])]

RECURSIVE lstrip(_)
lstrip(s) ==
  IF s # <<>> /\ Head(s) \in Whitespace THEN lstrip(Tail(s)) ELSE s

RECURSIVE rstrip(_)
rstrip(s) ==
  IF s # <<>> /\ s[Len(s)] \in Whitespace
    THEN rstrip(SubSeq(s, 1, Len(s) - 1)) ELSE s

\* str.strip()
strip(s) == rstrip(lstrip(s))

\* re.sub(r'\s+', ' ', s)
RECURSIVE collapse(_)
collapse(s) ==
  IF s = <<>> THEN <<>>
  ELSE IF Head(s) \in Whitespace THEN <<" ">> \o collapse(lstrip(Tail(s)))
  ELSE <<Head(s)>> \o collapse(Tail(s))

\* str.startswith / str.endswith
startswith(s, p) == Len(p) <= Len(s) /\ SubSeq(s, 1, Len(p)) = p
endswith(s, p) ==
  Len(p) <= Len(s) /\ SubSeq(s, Len(s) - Len(p) + 1, Len(s)) = p

\* ------------------------------------------------------------ validation
\* the mutant: a name part may hold what a training name may hold
is_valid_name_part_loose(text) ==
  LET t == strip(text) IN t # <<>> /\ \A i \in 1..Len(t) : t[i] \in NameChars

\* re.match(r'^[a-zA-Z...]+$', text.strip())
is_valid_name_part(text) ==
  LET t == strip(text) IN t # <<>> /\ \A i \in 1..Len(t) : t[i] \in Letters

\* the mutant: every example is taken as valid
is_valid_name_unchecked(name) == TRUE

\* re.match(r'^[a-zA-Z...\s\-\']+$', name.strip())
is_valid_name(name) ==
  LET t == strip(name) IN t # <<>> /\ \A i \in 1..Len(t) : t[i] \in NameChars

clean_name(name) == title(collapse(strip(name)))

capitalize_name(name) == title(name)

\* ------------------------------------------------------------ training
EmptyChains == <<>>
EmptyCounter == <<>>

\* the mutant: one start marker too many
padded_name_extra_marker(k, clean) ==
  [i \in 1..(k + 1) |-> START] \o lower(clean) \o <<END>>

\* '^' * order + clean_name.lower() + '$'
padded_name(k, clean) == [i \in 1..k |-> START] \o lower(clean) \o <<END>>

\* the mutant: the weight is stored, not accumulated
AddWeightOverwrite(ch, context, next_char, weight) ==
  LET old == IF context \in DOMAIN ch THEN ch[context] ELSE EmptyCounter
      new == [c \in DOMAIN old \cup {next_char} |->
                IF c = next_char THEN weight ELSE old[c]]
  IN [key \in DOMAIN ch \cup {context} |->
        IF key = context THEN new ELSE ch[key]]

\* self.chains[context][next_char] += weight
AddWeight(ch, context, next_char, weight) ==
  LET old == IF context \in DOMAIN ch THEN ch[context] ELSE EmptyCounter
      new == [c \in DOMAIN old \cup {next_char} |->
                (IF c \in DOMAIN old THEN old[c] ELSE 0)
                + (IF c = next_char THEN weight ELSE 0)]
  IN [key \in DOMAIN ch \cup {context} |->
        IF key = context THEN new ELSE ch[key]]

\* for i in range(len(padded_name) - self.order): ...
RECURSIVE AddWindows(_, _, _, _, _)
AddWindows(ch, k, padded, weight, i) ==
  IF i > Len(padded) - k THEN ch
  ELSE AddWindows(
         AddWeight(ch, SubSeq(padded, i, i + k - 1), padded[i + k], weight),
         k, padded, weight, i + 1)

\* for name, weight in zip(names, weights): ... (the table)
RECURSIVE TrainChains(_, _, _, _)
TrainChains(ch, k, ns, ws) ==
  IF ns = <<>> THEN ch
  ELSE LET ch2 == IF is_valid_name(Head(ns))
                    THEN AddWindows(ch, k, padded_name(k, clean_name(Head(ns))),
                                    Head(ws), 1)
                    ELSE ch
       IN TrainChains(ch2, k, Tail(ns), Tail(ws))

\* for name, weight in zip(names, weights): ... (self.names)
RECURSIVE TrainNames(_)
TrainNames(ns) ==
  IF ns = <<>> THEN <<>>
  ELSE (IF is_valid_name(Head(ns)) THEN <<clean_name(Head(ns))>> ELSE <<>>)
       \o TrainNames(Tail(ns))

\* Optional[List[int]]: <<>> is None, <<list>> is the list given
None == <<>>

\* weights = [1] * len(names) when weights is None
DefaultWeights(ns, ws) ==
  IF ws = None THEN [i \in 1..Len(ns) |-> 1] ELSE ws[1]

\* ------------------------------------------------------------ load_names_from_csv
\* A file is the sequence of rows csv.reader yields; a row is a sequence of
\* cells; a cell is a string.
Digits == {"0", "1", "2"}
DigitValue(c) == CASE c = "0" -> 0 [] c = "1" -> 1 [] c = "2" -> 2

\* str.strip('"')
RECURSIVE stripq(_)
stripq(s) ==
  IF s # <<>> /\ Head(s) = "\"" THEN stripq(Tail(s))
  ELSE IF s # <<>> /\ s[Len(s)] = "\"" THEN stripq(SubSeq(s, 1, Len(s) - 1))
  ELSE s

\* str.replace(',', '')
RECURSIVE RemoveCommas(_)
RemoveCommas(s) ==
  IF s = <<>> THEN <<>>
  ELSE (IF Head(s) = "," THEN <<>> ELSE <<Head(s)>>) \o RemoveCommas(Tail(s))

Unsigned(s) == IF s # <<>> /\ Head(s) \in {"-", "+"} THEN Tail(s) ELSE s

\* int(s) does not raise ValueError: an optional sign, then digits
IsInt(s) ==
  /\ Unsigned(s) # <<>>
  /\ \A i \in 1..Len(Unsigned(s)) : Unsigned(s)[i] \in Digits

RECURSIVE DigitsValue(_)
DigitsValue(d) ==
  IF d = <<>> THEN 0
  ELSE 10 * DigitsValue(SubSeq(d, 1, Len(d) - 1)) + DigitValue(d[Len(d)])

\* int(s)
IntOf(s) ==
  IF Head(s) = "-" THEN 0 - DigitsValue(Unsigned(s)) ELSE DigitsValue(Unsigned(s))

\* name.lower() in [..., 'name']
HeaderNames == { <<"n", "a", "m", "e">> }

\* the mutant: a prevalence of zero is kept
PositivePrevalenceOrZero(prevalence) == prevalence >= 0

\* if prevalence > 0:
PositivePrevalence(prevalence) == prevalence > 0

\* the body of  for row_num, row in enumerate(reader):  the row is appended
\* to names and weights, or skipped
LoadRow(language, row_num, row, acc) ==
  IF row_num = 0 /\ language = "swedish" THEN acc
  ELSE IF Len(row) < 2 THEN acc
  ELSE LET nm == stripq(strip(row[1]))
           prevalence_str == RemoveCommas(stripq(strip(row[2])))
       IN IF nm = <<>> \/ lower(nm) \in HeaderNames THEN acc
          ELSE IF ~IsInt(prevalence_str) THEN acc
          ELSE IF PositivePrevalence(IntOf(prevalence_str))
            THEN [names |-> Append(acc.names, nm),
                  weights |-> Append(acc.weights, IntOf(prevalence_str))]
          ELSE acc

RECURSIVE LoadRows(_, _, _, _)
LoadRows(language, rows, i, acc) ==
  IF i > Len(rows) THEN acc
  ELSE LoadRows(language, rows, i + 1, LoadRow(language, i - 1, rows[i], acc))

load_names_from_csv(language, rows) ==
  LoadRows(language, rows, 1, [names |-> <<>>, weights |-> <<>>])


\* ------------------------------------------------------------ state
VARIABLES
  order,        \* self.order
  chains,       \* self.chains
  names,        \* self.names
  trains,       \* train calls made so far
  trainResult,  \* how the last train call ended: "none", "ok", "ValueError"
  lastNames,    \* the names argument of the last train call
  lastWeights,  \* the weights argument of the last train call
  accepted,     \* some train call has accepted at least one example
  pc,           \* "idle"; in a generate call "loop" or "post"; "done" when
                \* the call has ended and its caller holds the outcome
  args,         \* the arguments of the outermost generate call
  start_with,   \* generate's local start_with (lower-cased, stripped)
  end_with,     \* generate's local end_with (lower-cased, stripped)
  name,         \* generate's local name
  context,      \* generate's local context
  remaining,    \* iterations left of  for _ in range(max_length - len(name))
  stack,        \* the call sites of the suspended generate frames
  outcome,      \* how the last generate call ended, "none" before any
  result,       \* what the last generate call returned, '' when it did not
  main          \* main()'s frame: where it is (at), the file it read and
                \* its locals; at = "none" when the class is used directly

model == <<order, chains, names>>
trainVars == <<trains, trainResult, lastNames, lastWeights, accepted>>
callVars ==
  <<pc, args, start_with, end_with, name, context, remaining, stack,
    outcome, result>>
vars == <<model, trainVars, callVars, main>>

\* ------------------------------------------------------------ inputs
Orders == {1, 2}
Weights == 1..2
RawNames ==
  { <<"a", "b">>, <<"a", "a", "a">>, <<" ", "A", " ", " ", "b">>,
    <<"b", "-", "a">>, <<"a", "1">>, <<" ">> }

SeqsUpTo(S, n) == UNION {[1..m -> S] : m \in 0..n}

NameLists == SeqsUpTo(RawNames, MaxCorpus)
\* weights is None, a list as long as names, or a list one longer
WeightLists(ns) ==
  {None} \cup {<<ws>> : ws \in [1..Len(ns) -> Weights]}
         \cup {<<[i \in 1..(Len(ns) + 1) |-> 1]>>}

\* the lists of at most one name, for the runs that train more than once
ShortNameLists == {<<>>} \cup {<<n>> : n \in RawNames}

Lengths == 0..MaxLen
\* the names the generation runs are trained on, one per train call
GenNameLists == { <<>>, << <<"a", "b">> >>, << <<"b", "-", "a">> >>, << <<"a", "1">> >> }

Prefixes == { <<>>, <<"a">>, <<"A", "b">>, <<" ", "b">>, <<"a", "-">>, <<" ">> }
Suffixes == { <<>>, <<"a">>, <<"B">>, <<"1">> }

\* the cells of the files main reads
NameCells ==
  { <<"a", "b">>, <<" ", "A", " ", " ", "b">>, <<"a", "1">>, <<>>,
    <<"\"", "a", "b", "\"">>, <<"n", "a", "m", "e">> }
PrevalenceCells ==
  { <<"2">>, <<"0">>, <<"-", "1">>, <<"1", ",", "0">>, <<"x">> }
\* one name with every prevalence, every name with one prevalence, and a
\* row of one column
Rows ==
  {<< <<"a", "b">>, p >> : p \in PrevalenceCells}
    \cup {<< n, <<"2">> >> : n \in NameCells}
    \cup {<< <<"a", "b">> >>}
Files == SeqsUpTo(Rows, MaxCorpus)
Languages == {"finnish", "swedish"}

\* the files and the arguments of the runs of main that generate
MainFiles ==
  { << <<<<"a", "b">>, <<"2">>>> >>,
    << <<<<"A", " ", " ", "b">>, <<"1">>>> >>,
    << <<<<"a", "b">>, <<"2">>>>, <<<<"b", "-", "a">>, <<"1">>>> >>,
    << <<<<"a", "1">>, <<"2">>>> >>,
    << <<<<"a", "b">>, <<"0">>>> >> }
Counts == 1..MaxCount
MainArgs ==
  { [max_length |-> MaxLen, min_length |-> 1, start_with |-> <<>>, end_with |-> <<>>],
    [max_length |-> MaxLen, min_length |-> 0, start_with |-> <<"a">>, end_with |-> <<>>],
    [max_length |-> MaxLen, min_length |-> 0, start_with |-> <<>>, end_with |-> <<"B">>],
    [max_length |-> MaxLen, min_length |-> 0, start_with |-> <<"a", "-">>, end_with |-> <<>>],
    [max_length |-> 0, min_length |-> 0, start_with |-> <<>>, end_with |-> <<>>] }

\* the corpus Juha (100), Juho (50), Jussi (10) and its beginnings
Juha == <<"J", "u", "h", "a">>
Juho == <<"J", "u", "h", "o">>
Jussi == <<"J", "u", "s", "s", "i">>
ScenarioNames == <<Juha, Juho, Jussi>>
ScenarioWeights == <<100, 50, 10>>
ScenarioCorpora ==
  { [names |-> SubSeq(ScenarioNames, 1, n), weights |-> SubSeq(ScenarioWeights, 1, n)] :
      n \in 1..3 }
ScenarioLengths == Lengths \cup {10}
ScenarioPrefixes == { <<>>, <<"j", "u">>, <<"J">>, <<"u", "s">> }

\* generate's defaults are max_length=12, min_length=2, start_with='',
\* end_with=''; the record stands for "no call made" while outcome = "none"
NoArgs == [max_length |-> 0, min_length |-> 0, start_with |-> <<>>, end_with |-> <<>>]

\* main() has not been entered
NoMain ==
  [at |-> "none", language |-> "finnish", rows |-> <<>>,
   all_names |-> <<>>, all_weights |-> <<>>, count |-> 0,
   allow_duplicates |-> FALSE, generated_names |-> {}, attempts |-> 0,
   gen |-> NoArgs]

\* ------------------------------------------------------------ __init__
Init ==
  /\ order \in Orders
  /\ chains = EmptyChains
  /\ names = <<>>
  /\ trains = 0
  /\ trainResult = "none"
  /\ lastNames = <<>>
  /\ lastWeights = None
  /\ accepted = FALSE
  /\ pc = "idle"
  /\ args = NoArgs
  /\ start_with = <<>>
  /\ end_with = <<>>
  /\ name = <<>>
  /\ context = <<>>
  /\ remaining = 0
  /\ stack = <<>>
  /\ outcome = "none"
  /\ result = <<>>
  /\ main = NoMain

NoCall ==
  /\ pc' = "idle"
  /\ args' = NoArgs
  /\ start_with' = <<>>
  /\ end_with' = <<>>
  /\ name' = <<>>
  /\ context' = <<>>
  /\ remaining' = 0
  /\ stack' = <<>>
  /\ outcome' = "none"
  /\ result' = <<>>

\* ------------------------------------------------------------ train
\* the mutant: the lengths are not compared
ArityMismatchIgnored(ns, weights) == FALSE

\* if len(names) != len(weights): raise ValueError(...)
ArityMismatch(ns, weights) == Len(ns) # Len(weights)

train(ns, ws) ==
  /\ pc = "idle"
  /\ trains < MaxTrains
  /\ trains' = trains + 1
  /\ lastNames' = ns
  /\ lastWeights' = ws
  /\ LET weights == DefaultWeights(ns, ws) IN
       IF ArityMismatch(ns, weights)
         THEN /\ trainResult' = "ValueError"
              /\ UNCHANGED <<model, accepted>>
         ELSE /\ trainResult' = "ok"
              /\ names' = TrainNames(ns)
              /\ chains' = TrainChains(chains, order, ns, weights)
              /\ accepted' = (accepted \/ \E i \in 1..Len(ns) : is_valid_name(ns[i]))
              /\ UNCHANGED order
  /\ NoCall


\* ------------------------------------------------------------ generate
\* the mutant: the constraints are validated before the table is looked at
EntryErrorValidatesFirst(ch, sw, ew) ==
  IF sw # <<>> /\ ~is_valid_name_part(sw) THEN "InvalidConstraint"
  ELSE IF ew # <<>> /\ ~is_valid_name_part(ew) THEN "InvalidConstraint"
  ELSE IF DOMAIN ch = {} THEN "ModelNotTrained"
  ELSE "none"

\* the ValueError generate raises before seeding, "none" when it raises none;
\* sw and ew are start_with and end_with after .lower().strip()
EntryError(ch, sw, ew) ==
  IF DOMAIN ch = {} THEN "ModelNotTrained"
  ELSE IF sw # <<>> /\ ~is_valid_name_part(sw) THEN "InvalidConstraint"
  ELSE IF ew # <<>> /\ ~is_valid_name_part(ew) THEN "InvalidConstraint"
  ELSE "none"

\* the mutant: the seed context is the first characters of the prefix
SeedContextFromFront(k, sw) ==
  IF sw = <<>> THEN [i \in 1..k |-> START]
  ELSE IF Len(sw) >= k THEN SubSeq(sw, 1, k)
  ELSE [i \in 1..(k - Len(sw)) |-> START] \o sw

\* the mutant: a long prefix is the context as it is
SeedContextWhole(k, sw) ==
  IF sw = <<>> THEN [i \in 1..k |-> START]
  ELSE IF Len(sw) >= k THEN sw
  ELSE [i \in 1..(k - Len(sw)) |-> START] \o sw

\* the initial context
SeedContext(k, sw) ==
  IF sw = <<>> THEN [i \in 1..k |-> START]
  ELSE IF Len(sw) >= k THEN SubSeq(sw, Len(sw) - k + 1, Len(sw))
  ELSE [i \in 1..(k - Len(sw)) |-> START] \o sw

\* the mutant: some shorter context is always found
try_alternative_context_found(ch, ctx) == TRUE

\* _try_alternative_context
try_alternative_context(ch, ctx) ==
  \E i \in 1..(Len(ctx) - 1) : SubSeq(ctx, i + 1, Len(ctx)) \in DOMAIN ch

\* self.chains[context] on the defaultdict: a missing key is inserted
Lookup(ch, ctx) ==
  IF ctx \in DOMAIN ch THEN ch
  ELSE [key \in DOMAIN ch \cup {ctx} |->
          IF key = ctx THEN EmptyCounter ELSE ch[key]]

\* the characters random.choices(chars, weights=weights) can draw
Choices(possible_chars) ==
  {c \in DOMAIN possible_chars : possible_chars[c] > 0}

\* the mutant: the context drops its newest character, not its oldest
SlideKeepsOldest(ctx, next_char) ==
  Append(SubSeq(ctx, 1, Len(ctx) - 1), next_char)

\* context[1:] + next_char
Slide(ctx, next_char) == Append(Tail(ctx), next_char)

\* the mutant: a too-short name is always reset in place
RestartsCallNever(sw) == FALSE

\* if start_with: (an end marker before min_length restarts the whole call)
RestartsCall(sw) == sw # <<>>

\* the mutant: the ending is not checked
NeedsSuffixRetryNever(res, ew) == FALSE

\* if result and end_with and not result.lower().endswith(end_with)
NeedsSuffixRetry(res, ew) ==
  res # <<>> /\ ew # <<>> /\ ~endswith(lower(res), ew)

\* an exception leaves generate through every frame
Raise(err) ==
  /\ pc' = "done"
  /\ outcome' = err
  /\ result' = <<>>
  /\ start_with' = <<>>
  /\ end_with' = <<>>
  /\ name' = <<>>
  /\ context' = <<>>
  /\ remaining' = 0
  /\ stack' = <<>>

\* generate's body down to the for statement, in a frame above stk
Enter(ml, mn, sw, ew, stk) ==
  LET s == strip(lower(sw))
      e == strip(lower(ew))
      err == EntryError(chains, s, e)
      n == IF ml - Len(s) > 0 THEN ml - Len(s) ELSE 0
  IN IF err # "none" THEN Raise(err)
     ELSE /\ start_with' = s
          /\ end_with' = e
          /\ name' = s
          /\ context' = SeedContext(order, s)
          /\ remaining' = n
          /\ pc' = IF n > 0 THEN "loop" ELSE "post"
          /\ stack' = stk
          /\ outcome' = "running"
          /\ result' = <<>>

\* return self.generate(max_length, min_length, start_with, end_with) at
\* the call site named; past the interpreter's limit it is a RecursionError
Recurse(site, stk) ==
  IF Len(stk) + 2 > RecursionLimit THEN Raise("RecursionError")
  ELSE Enter(args.max_length, args.min_length, start_with, end_with,
             Append(stk, site))

\* what happens to a value returned into the frames stk: it leaves the
\* outermost frame, or some frame calls generate again
RECURSIVE Return(_, _, _)
Return(res, ew, stk) ==
  IF stk = <<>> THEN [kind |-> "return", value |-> res, stack |-> <<>>]
  ELSE LET site == stk[Len(stk)]
           rest == SubSeq(stk, 1, Len(stk) - 1)
       IN IF site = "L136" /\ NeedsSuffixRetry(res, ew)
            THEN [kind |-> "call", value |-> <<>>, stack |-> rest]
            ELSE Return(res, ew, rest)

generate(ml, mn, sw, ew) ==
  /\ pc = "idle"
  /\ args' = [max_length |-> ml, min_length |-> mn,
              start_with |-> sw, end_with |-> ew]
  /\ Enter(ml, mn, sw, ew, <<>>)
  /\ UNCHANGED <<model, trainVars>>

Break ==
  /\ pc' = "post"
  /\ remaining' = 0
  /\ UNCHANGED <<start_with, end_with, name, context, stack, outcome, result>>

Continue(nm, ctx) ==
  /\ name' = nm
  /\ context' = ctx
  /\ remaining' = remaining - 1
  /\ pc' = IF remaining - 1 > 0 THEN "loop" ELSE "post"
  /\ UNCHANGED <<start_with, end_with, stack, outcome, result>>

\* one iteration of  for _ in range(max_length - len(name))
LoopStep ==
  /\ pc = "loop"
  /\ UNCHANGED <<order, names, trainVars, args, main>>
  /\ IF context \notin DOMAIN chains /\ ~try_alternative_context(chains, context)
       THEN Break /\ UNCHANGED chains
       ELSE LET ch == Lookup(chains, context)
                possible_chars == ch[context]
            IN /\ chains' = ch
               /\ IF DOMAIN possible_chars = {}
                    THEN Break
                    ELSE \E next_char \in Choices(possible_chars) :
                           IF next_char = END
                             THEN IF Len(name) >= args.min_length
                                    THEN Break
                                    ELSE IF RestartsCall(start_with)
                                      THEN Recurse("L125", stack)
                                      ELSE Continue(<<>>, [i \in 1..order |-> START])
                             ELSE Continue(Append(name, next_char),
                                           Slide(context, next_char))

\* the statements after the loop
Post ==
  /\ pc = "post"
  /\ UNCHANGED <<model, trainVars, args, main>>
  /\ IF name = <<>>
       THEN Recurse("L136", stack)
       ELSE LET res == capitalize_name(name) IN
            IF NeedsSuffixRetry(res, end_with)
              THEN Recurse("L139", stack)
              ELSE LET r == Return(res, end_with, stack) IN
                   IF r.kind = "call"
                     THEN Recurse("L139", r.stack)
                     ELSE /\ pc' = "done"
                          /\ outcome' = "returned"
                          /\ result' = r.value
                          /\ stack' = <<>>
                          /\ UNCHANGED <<start_with, end_with, name, context,
                                         remaining>>

\* the caller has taken the value or the exception; the next call can start
Done ==
  /\ pc = "done"
  /\ NoCall
  /\ UNCHANGED <<model, trainVars, main>>

\* ------------------------------------------------------------ main
\* main() from parse_args to the while statement: the file is read (one
\* file stands for the files main concatenates), and with no name loaded
\* main returns; otherwise the generator is trained on what was loaded.
\* The generator is constructed with order = args.order.
MainStart(language, rows, count, allow_duplicates, gen) ==
  /\ main.at = "none"
  /\ trains = 0
  /\ LET loaded == load_names_from_csv(language, rows)
         frame == [at |-> "loop", language |-> language, rows |-> rows,
                   all_names |-> loaded.names, all_weights |-> loaded.weights,
                   count |-> count, allow_duplicates |-> allow_duplicates,
                   generated_names |-> {}, attempts |-> 0, gen |-> gen]
     IN IF loaded.names = <<>>
          THEN /\ main' = [frame EXCEPT !.at = "exit"]
               /\ UNCHANGED <<model, trainVars, callVars>>
          ELSE /\ main' = frame
               /\ train(loaded.names, <<loaded.weights>>)

\* while len(generated_names) < args.count and attempts < max_attempts:
WhileCondition ==
  /\ Cardinality(main.generated_names) < main.count
  /\ main.attempts < main.count * AttemptFactor

\* name = generator.generate(max_length=..., min_length=..., start_with=...,
\*                           end_with=...)
MainCall ==
  /\ main.at = "loop"
  /\ WhileCondition
  /\ generate(main.gen.max_length, main.gen.min_length,
              main.gen.start_with, main.gen.end_with)
  /\ UNCHANGED main

\* if args.allow_duplicates or name not in all_names:
Novel(nm, allow_duplicates, all_names) ==
  allow_duplicates \/ ~(\E i \in 1..Len(all_names) : all_names[i] = nm)

\* the rest of the loop body once generate has ended: the name is taken and
\* the attempt counted, a ValueError ends the loop, and any other exception
\* leaves main
MainTake ==
  /\ main.at = "loop"
  /\ pc = "done"
  /\ NoCall
  /\ UNCHANGED <<model, trainVars>>
  /\ IF outcome = "returned"
       THEN main' =
              [main EXCEPT
                 !.generated_names =
                    IF result # <<>> /\ Novel(result, main.allow_duplicates, main.all_names)
                      THEN @ \cup {result} ELSE @,
                 !.attempts = @ + 1]
       ELSE IF outcome \in {"ModelNotTrained", "InvalidConstraint"}
         THEN main' = [main EXCEPT !.at = "report"]
         ELSE main' = [main EXCEPT !.at = "crashed"]

\* the while condition is false: the names are printed
MainReport ==
  /\ main.at = "loop"
  /\ pc = "idle"
  /\ ~WhileCondition
  /\ main' = [main EXCEPT !.at = "report"]
  /\ UNCHANGED <<model, trainVars, callVars>>

\* ------------------------------------------------------------ specifications
\* the first train call on a new model, with any corpus
TrainFresh ==
  /\ trains = 0
  /\ \E ns \in NameLists : \E ws \in WeightLists(ns) : train(ns, ws)
  /\ UNCHANGED main

\* any train call, with a short corpus
Train ==
  /\ \E ns \in ShortNameLists : \E ws \in WeightLists(ns) : train(ns, ws)
  /\ UNCHANGED main

\* any train call, with one of the generation corpora and default weights
TrainDefault ==
  /\ \E ns \in GenNameLists : train(ns, None)
  /\ UNCHANGED main

Generate ==
  /\ \E ml \in Lengths, mn \in Lengths, sw \in Prefixes, ew \in Suffixes :
       generate(ml, mn, sw, ew)
  /\ UNCHANGED main

Next == TrainDefault \/ Generate \/ LoopStep \/ Post \/ Done

Spec == Init /\ [][Next]_vars

NextTrain == Train

SpecTrain == Init /\ [][NextTrain]_vars

\* main up to the trained generator, on any file
MainLoad ==
  \E language \in Languages, rows \in Files :
    MainStart(language, rows, 1, FALSE, NoArgs)

NextLoad == MainLoad

SpecLoad == Init /\ [][NextLoad]_vars

\* main from its start to its end
MainRun ==
  \E rows \in MainFiles, count \in Counts, allow_duplicates \in BOOLEAN,
     gen \in MainArgs :
    MainStart("finnish", rows, count, allow_duplicates, gen)

NextMain == MainRun \/ MainCall \/ LoopStep \/ Post \/ MainTake \/ MainReport

SpecMain == Init /\ [][NextMain]_vars

\* one train call with the Juha corpus, then any number of generate calls
TrainScenario ==
  /\ trains = 0
  /\ \E c \in ScenarioCorpora : train(c.names, <<c.weights>>)
  /\ UNCHANGED main

GenerateScenario ==
  /\ \E ml \in ScenarioLengths, mn \in Lengths, sw \in ScenarioPrefixes :
       generate(ml, mn, sw, <<>>)
  /\ UNCHANGED main

NextScenario == TrainScenario \/ GenerateScenario \/ LoopStep \/ Post \/ Done

SpecScenario == Init /\ [][NextScenario]_vars

NextFresh == TrainFresh

SpecFresh == Init /\ [][NextFresh]_vars


\* ------------------------------------------------------------ claims
Trained == DOMAIN chains # {}
Returned == pc = "done" /\ outcome = "returned"
LettersOnly(p) == p # <<>> /\ \A i \in 1..Len(p) : p[i] \in Letters
HasNonLetter(p) == \E i \in 1..Len(p) : p[i] \notin Letters

\* the padded form of an accepted raw name
PaddedForm(raw) == padded_name(order, clean_name(raw))

\* how many windows of padded equal w
WindowCount(padded, w) ==
  Cardinality({i \in 1..(Len(padded) - Len(w) + 1) :
                 SubSeq(padded, i, i + Len(w) - 1) = w})

\* what example i of the last train call adds to table[c][t]
Contribution(i, c, t) ==
  IF is_valid_name(lastNames[i])
    THEN DefaultWeights(lastNames, lastWeights)[i]
           * WindowCount(PaddedForm(lastNames[i]), Append(c, t))
    ELSE 0

RECURSIVE SumContributions(_, _, _)
SumContributions(n, c, t) ==
  IF n = 0 THEN 0 ELSE SumContributions(n - 1, c, t) + Contribution(n, c, t)

ExpectedWeight(c, t) == SumContributions(Len(lastNames), c, t)

\* C1: after one train call on a new model every key has length order, and
\* the weight stored for context c and target t is the positive sum, over
\* the accepted examples, of weight times the number of windows of the
\* padded form equal to c followed by t; every window of an accepted
\* example is an entry and there are no other entries.
C1_TableIsWeightedWindowCount ==
  (trains = 1 /\ trainResult = "ok") =>
    /\ \A c \in DOMAIN chains :
         /\ Len(c) = order
         /\ DOMAIN chains[c] # {}
         /\ \A t \in DOMAIN chains[c] :
              chains[c][t] > 0 /\ chains[c][t] = ExpectedWeight(c, t)
    /\ \A i \in 1..Len(lastNames) :
         is_valid_name(lastNames[i]) =>
           LET p == PaddedForm(lastNames[i]) IN
           \A j \in 1..(Len(p) - order) :
             LET c == SubSeq(p, j, j + order - 1) IN
             c \in DOMAIN chains /\ p[j + order] \in DOMAIN chains[c]

\* two accepted examples add to one entry, one of them through two windows
C1_Witness ==
  /\ trains = 1 /\ trainResult = "ok" /\ Len(lastNames) = 2
  /\ \E c \in DOMAIN chains : \E t \in DOMAIN chains[c] :
       /\ Contribution(1, c, t) > 0
       /\ Contribution(2, c, t) > 0
       /\ WindowCount(PaddedForm(lastNames[2]), Append(c, t)) = 2
       /\ chains[c][t] = Contribution(1, c, t) + Contribution(2, c, t)

\* C2: a train call rebuilds the table from scratch: after it the table is
\* the one a new model of the same order has after that call alone.
C2_RetrainRebuilds ==
  (trains >= 1 /\ trainResult = "ok") =>
    chains = TrainChains(EmptyChains, order, lastNames,
                         DefaultWeights(lastNames, lastWeights))

\* C3: no step of a generate call changes the table, the retained names or
\* the order; a lookup of an absent context adds no key.
C3_GenerateLeavesModel ==
  [][trains' = trains => UNCHANGED <<order, chains, names>>]_vars

\* a call has returned after its loop ended on a context the table lacks
C3_Witness == Returned /\ Trained /\ context \notin DOMAIN chains

\* C4: with min_length = 0 a returned string is at most max_length long.
C4_AtMostMaxLength ==
  (Returned /\ args.min_length = 0) => Len(result) <= args.max_length

\* C5: with min_length <= max_length a returned string is at least
\* min_length long.
C5_AtLeastMinLength ==
  (Returned /\ args.min_length <= args.max_length) =>
    Len(result) >= args.min_length

\* C6: a returned string starts with the letters-only prefix asked for,
\* case ignored, and while a prefix is in force the name in progress always
\* starts with it.
C6_PrefixKept ==
  /\ (Returned /\ LettersOnly(args.start_with)) =>
       startswith(lower(result), lower(args.start_with))
  /\ (pc \in {"loop", "post"} /\ start_with # <<>>) =>
       startswith(name, start_with)

\* a call with an upper-case prefix has returned a longer name
C6_Witness ==
  /\ Returned
  /\ args.start_with = <<"A", "b">>
  /\ Len(result) > Len(args.start_with)

\* C7: a returned string ends with the letters-only suffix asked for, case
\* ignored.
C7_SuffixKept ==
  (Returned /\ LettersOnly(args.end_with)) =>
    endswith(lower(result), lower(args.end_with))

\* a call with an upper-case suffix has returned, on a table that can also
\* produce a name ending otherwise
C7_Witness ==
  /\ Returned
  /\ args.end_with = <<"B">>
  /\ \E c \in DOMAIN chains : END \in DOMAIN chains[c] /\ c[Len(c)] # "b"

\* C8: a generate call ends by returning, by one of its two argument errors
\* or by the retry cap's GenerationExhausted; its retries never run on
\* until the interpreter stops them.
C8_RetriesCapped ==
  outcome \in {"none", "running", "returned", "ModelNotTrained",
               "InvalidConstraint", "GenerationExhausted"}

\* C9: a generate call fails with the model-not-trained error exactly when
\* the table is empty, whatever its other arguments, and the table is
\* non-empty exactly when some train call has accepted an example.
C9_NotTrainedIffEmpty ==
  /\ pc = "done" => (outcome = "ModelNotTrained" <=> ~Trained)
  /\ accepted <=> Trained

\* a model whose train calls accepted nothing refuses an invalid prefix
\* with the model-not-trained error
C9_Witness ==
  /\ pc = "done" /\ outcome = "ModelNotTrained"
  /\ trains >= 1
  /\ args.start_with = <<"a", "-">>

\* C10, as stated: on a trained model the call fails with the
\* invalid-constraint error exactly when the prefix or the suffix as
\* supplied holds a character that is no letter.
C10_InvalidIffNonLetterSupplied ==
  (pc = "done" /\ Trained) =>
    (outcome = "InvalidConstraint"
       <=> (HasNonLetter(args.start_with) \/ HasNonLetter(args.end_with)))

\* C10, amended: on a trained model the call fails with the
\* invalid-constraint error, before seeding, exactly when the prefix or the
\* suffix, lower-cased and stripped of surrounding whitespace, holds a
\* character that is no letter.
C10_InvalidIffNonLetterAfterStrip ==
  (pc = "done" /\ Trained) =>
    /\ outcome = "InvalidConstraint"
         <=> \/ HasNonLetter(strip(lower(args.start_with)))
             \/ HasNonLetter(strip(lower(args.end_with)))
    /\ outcome = "InvalidConstraint" => name = <<>> /\ context = <<>>

\* a trained model has refused a prefix that holds a hyphen
C10_Witness ==
  /\ pc = "done" /\ Trained /\ outcome = "InvalidConstraint"
  /\ args.start_with = <<"a", "-">>


\* C11: a train call whose weights list is not as long as its names list
\* fails with an error and leaves the table, the retained names and the
\* order as they were; a call with lists of equal length, or with no
\* weights, does not fail.
C11_MismatchLeavesModel ==
  [][trains' = trains + 1 =>
       IF lastWeights' # None /\ Len(lastWeights'[1]) # Len(lastNames')
         THEN trainResult' = "ValueError" /\ UNCHANGED <<order, chains, names>>
         ELSE trainResult' = "ok"]_vars

\* a trained model with retained names has refused a mismatched call
C11_Witness ==
  /\ trainResult = "ValueError"
  /\ Trained
  /\ names # <<>>
  /\ Len(lastWeights[1]) # Len(lastNames)

\* a name as C12 defines validity: trimmed, it is non-empty and holds only
\* letters, whitespace, hyphens and apostrophes
ValidAsStated(raw) ==
  LET t == strip(raw) IN
  /\ t # <<>>
  /\ \A i \in 1..Len(t) : t[i] \in {"a", "b", "A", "B", " ", "-", "'"}

\* the positions of the valid names of a corpus, in order
RECURSIVE ValidPositions(_, _)
ValidPositions(ns, i) ==
  IF i > Len(ns) THEN <<>>
  ELSE (IF ValidAsStated(ns[i]) THEN <<i>> ELSE <<>>) \o ValidPositions(ns, i + 1)

\* the last train call's corpus with the invalid examples removed
KeptPositions == ValidPositions(lastNames, 1)
KeptNames == [j \in 1..Len(KeptPositions) |-> lastNames[KeptPositions[j]]]
KeptWeights ==
  [j \in 1..Len(KeptPositions) |->
     DefaultWeights(lastNames, lastWeights)[KeptPositions[j]]]

\* C12: a train call on a new model with a corpus that mixes valid and
\* invalid names raises nothing for the invalid ones, and leaves the table
\* and the retained names of the same call with the invalid examples removed.
C12_InvalidNamesFiltered ==
  (trains = 1 /\ ~ArityMismatch(lastNames, DefaultWeights(lastNames, lastWeights))) =>
    /\ trainResult = "ok"
    /\ chains = TrainChains(EmptyChains, order, KeptNames, KeptWeights)
    /\ names = TrainNames(KeptNames)
    /\ Len(names) = Len(KeptNames)

\* a corpus of one valid and one invalid name has been trained on
C12_Witness ==
  /\ trains = 1 /\ trainResult = "ok"
  /\ Len(lastNames) = 2 /\ Len(KeptNames) = 1
  /\ Trained

\* a row whose weight is an integer that is zero or negative
NonPositiveRow(row) ==
  /\ Len(row) >= 2
  /\ LET w == RemoveCommas(stripq(strip(row[2]))) IN IsInt(w) /\ IntOf(w) <= 0

\* the data rows of a file that are not of zero or negative weight (the
\* header row of a Swedish file stays where it is)
RECURSIVE WithoutNonPositive(_, _, _)
WithoutNonPositive(language, rows, i) ==
  IF i > Len(rows) THEN <<>>
  ELSE (IF NonPositiveRow(rows[i]) /\ ~(i = 1 /\ language = "swedish")
          THEN <<>> ELSE <<rows[i]>>)
       \o WithoutNonPositive(language, rows, i + 1)

\* C13: rows of zero or negative weight are dropped without an error: what
\* main loads and the table it trains are those of the file without such
\* rows, and no weight of the table is zero or negative.
C13_NonPositiveRowsFiltered ==
  main.at # "none" =>
    LET kept == load_names_from_csv(main.language,
                  WithoutNonPositive(main.language, main.rows, 1))
    IN /\ trainResult # "ValueError"
       /\ main.all_names = kept.names
       /\ main.all_weights = kept.weights
       /\ \A i \in 1..Len(main.all_weights) : main.all_weights[i] > 0
       /\ chains = TrainChains(EmptyChains, order, kept.names, kept.weights)
       /\ \A key \in DOMAIN chains : \A c \in DOMAIN chains[key] :
            chains[key][c] > 0

\* a file with a row of zero or negative weight next to a row of positive
\* weight has been loaded and trained on
C13_Witness ==
  /\ main.at = "loop"
  /\ trainResult = "ok"
  /\ Trained
  /\ \E i \in 1..Len(main.rows) :
       /\ NonPositiveRow(main.rows[i])
       /\ ~(i = 1 /\ main.language = "swedish")
       /\ is_valid_name(main.rows[i][1])

\* C14: main's collecting loop has made at most 10 * count calls to generate
\* and holds at most count names, a call to generate is only made while
\* fewer than count names are held and attempts are left, and no run of main
\* ends anywhere but at the reporting step.
C14_LoopBoundedAndReports ==
  main.at \notin {"none", "exit"} =>
    /\ main.attempts <= main.count * AttemptFactor
    /\ Cardinality(main.generated_names) <= main.count
    /\ (main.at = "loop" /\ pc # "idle") =>
         /\ Cardinality(main.generated_names) < main.count
         /\ main.attempts < main.count * AttemptFactor
    /\ main.at # "crashed"

\* C15: with duplicates not allowed, no name main has collected is one of
\* the model's cleaned training names.
C15_CollectedNamesAreNovel ==
  (main.at \in {"loop", "report"} /\ ~main.allow_duplicates) =>
    \A nm \in main.generated_names :
      \A i \in 1..Len(names) : names[i] # nm

\* C17: the start marker is no target of the table, neither marker is ever
\* part of the name in progress, and no returned string holds a marker.
C17_NoMarkersInOutput ==
  /\ \A key \in DOMAIN chains : START \notin DOMAIN chains[key]
  /\ \A i \in 1..Len(name) : name[i] \notin {START, END}
  /\ Returned => \A i \in 1..Len(result) : result[i] \notin {START, END}

\* a call has returned a name that a sampled end marker ended: the loop
\* stopped with iterations left at a context that can draw a character
C17_Witness ==
  /\ Returned
  /\ Len(result) < args.max_length
  /\ Len(result) > Len(start_with)
  /\ context \in DOMAIN chains
  /\ END \in Choices(chains[context])

\* the context is order characters long and none of its strict suffixes is
\* a key; every key is order characters long
ContextAndKeysHaveOrderLength ==
  /\ \A key \in DOMAIN chains : Len(key) = order
  /\ pc \in {"loop", "post"} =>
       /\ Len(context) = order
       /\ \A i \in 1..(Len(context) - 1) :
            SubSeq(context, i + 1, Len(context)) \notin DOMAIN chains

\* C19: before and after every step the context of a running call and every
\* key of the table are order characters long, so that no strict suffix of
\* the context is a key; and a loop iteration that finds the context absent
\* from the table ends the loop with the name and the table as they were.
C19_AbsentContextEndsLoop ==
  [][/\ ContextAndKeysHaveOrderLength
     /\ ContextAndKeysHaveOrderLength'
     /\ (pc = "loop" /\ context \notin DOMAIN chains) =>
          (pc' = "post" /\ name' = name /\ chains' = chains)]_vars

\* a call whose prefix gives a context never seen in training has left the
\* loop at its first iteration with the prefix alone
C19_Witness ==
  /\ pc = "post"
  /\ Trained
  /\ start_with # <<>>
  /\ name = start_with
  /\ Len(start_with) < args.max_length
  /\ context \notin DOMAIN chains

\* the context under which position i of the lower-cased string lo was
\* drawn: the order characters before it, start markers before the string
ContextBefore(lo, i) ==
  SubSeq([j \in 1..order |-> START] \o lo, i, i + order - 1)

\* the call of the scenario: the model of order 2 trained on Juha (100),
\* Juho (50), Jussi (10), and generate(max_length=10, min_length=2,
\* start_with='ju')
InScenario ==
  /\ order = 2
  /\ lastNames = ScenarioNames
  /\ lastWeights = <<ScenarioWeights>>
  /\ args = [max_length |-> 10, min_length |-> 2,
             start_with |-> <<"j", "u">>, end_with |-> <<>>]

\* C18: every character of a returned name after the prefix is a target,
\* not the end marker, of positive weight under the order characters before
\* it, and the window the two form is a window of the padded form of a
\* training name; the scenario's call does not fail and returns Juha, Juho
\* or Jussi.
C18_AppendedCharactersAreLearned ==
  /\ Returned =>
       LET lo == lower(result) IN
       \A i \in (Len(start_with) + 1)..Len(lo) :
         LET ctx == ContextBefore(lo, i) IN
         /\ lo[i] # END
         /\ ctx \in DOMAIN chains
         /\ lo[i] \in DOMAIN chains[ctx]
         /\ chains[ctx][lo[i]] > 0
         /\ \E j \in 1..Len(names) :
              WindowCount(padded_name(order, names[j]), Append(ctx, lo[i])) > 0
  /\ (InScenario /\ pc = "done") =>
       /\ outcome = "returned"
       /\ result \in {Juha, Juho, Jussi}

\* the scenario's call has returned the least likely of the three names
C18_Witness ==
  /\ InScenario
  /\ Returned
  /\ result = Jussi

====
